---------------------------- MODULE Spec2Model ----------------------------
(***************************************************************************)
(* A model of the path-confinement and file-model layer of the NAS server: *)
(*   - NASFile (src/src/file.rs): percent-decoding, joining with ROOT, the *)
(*     ROOT prefix check, file_name / category / extension / size_bytes,   *)
(*     and the two orderings of NASFile (PartialOrd by hand, Ord derived); *)
(*   - the delete handler (src/server/src/routes/fs/delete.rs) running as  *)
(*     concurrent requests over a shared filesystem.                       *)
(*                                                                         *)
(* A string is a sequence of one-character strings; a filesystem path of   *)
(* the delete model is a sequence of component names.                      *)
(***************************************************************************)
EXTENDS Integers, Sequences, FiniteSets, TLC

VARIABLES
    \* ---- NASFile model (SpecFile) ----
    input,      \* the raw (percent-encoded) relative path handed to NASFile
    node,       \* what the OS reports for the joined path: [kind, len]
    op,         \* the NASFile operation applied to input ("none" before)
    res,        \* its result
    \* ---- ordering model (SpecOrder) ----
    listing,    \* a directory listing: a sequence of NASFile entries
    sorted,     \* whether listing.sort() has run
    cmpPair,    \* the pair of entries last compared
    cmpRes,     \* [partial, total]: partial_cmp and cmp of that pair
    \* ---- delete handler model (Spec) ----
    fs,         \* the filesystem: path -> "none" | "file" | "dir"
    req,        \* per request: the handler's locals and its position
    envSteps,   \* steps taken by the other actor on the filesystem
    std,        \* the std::fs::remove_dir_all the server was built with
    fs0         \* the filesystem at the start

fileVars  == <<input, node, op, res>>
orderVars == <<listing, sorted, cmpPair, cmpRes>>
delVars   == <<fs, req, envSteps, std, fs0>>
vars      == <<input, node, op, res, listing, sorted, cmpPair, cmpRes,
               fs, req, envSteps, std, fs0>>

(***************************************************************************)
(* Strings                                                                 *)
(***************************************************************************)
\* const ROOT: &str = "/home/ozark/nas_root/";
ROOT ==
    <<"/","h","o","m","e","/","o","z","a","r","k","/",
      "n","a","s","_","r","o","o","t","/">>

\* str::starts_with
StartsWith(s, p) ==
    /\ Len(p) <= Len(s)
    /\ SubSeq(s, 1, Len(p)) = p

\* str::strip_prefix (called only after starts_with succeeded)
StripPrefix(s, p) == SubSeq(s, Len(p) + 1, Len(s))

\* The value of a hexadecimal digit, -1 for any other character.
HexVal(c) ==
    CASE c = "0" -> 0  [] c = "1" -> 1  [] c = "2" -> 2  [] c = "3" -> 3
      [] c = "4" -> 4  [] c = "5" -> 5  [] c = "6" -> 6  [] c = "7" -> 7
      [] c = "8" -> 8  [] c = "9" -> 9
      [] c \in {"a", "A"} -> 10  [] c \in {"b", "B"} -> 11
      [] c \in {"c", "C"} -> 12  [] c \in {"d", "D"} -> 13
      [] c \in {"e", "E"} -> 14  [] c \in {"f", "F"} -> 15
      [] OTHER -> -1

\* The character of an ASCII byte, for the bytes an escape of the modelled
\* inputs can produce ("?" stands for the other ASCII bytes); "<hi>" stands
\* for a byte >= 128.
ByteChar(b) ==
    IF b >= 128 THEN "<hi>"
    ELSE CASE b = 34 -> "\""  [] b = 37 -> "%"  [] b = 46 -> "."
           [] b = 47 -> "/"   [] OTHER -> "?"

\* Whether s starts with an escape "%XY" of two hexadecimal digits.
IsEscape(s) ==
    /\ Len(s) >= 3
    /\ s[1] = "%"
    /\ HexVal(s[2]) >= 0
    /\ HexVal(s[3]) >= 0

\* percent_encoding::percent_decode_str, as bytes: "%XY" with two hex digits
\* becomes the byte 16*X+Y; every other character stands for itself (the
\* characters of a &str are ASCII here: byte 0 stands for any of them).
RECURSIVE PercentDecodeBytes(_)
PercentDecodeBytes(s) ==
    IF s = <<>> THEN <<>>
    ELSE IF IsEscape(s)
         THEN <<16 * HexVal(s[2]) + HexVal(s[3])>>
                \o PercentDecodeBytes(SubSeq(s, 4, Len(s)))
         ELSE <<0>> \o PercentDecodeBytes(Tail(s))

\* The same decoding, as characters.
RECURSIVE PercentDecode(_)
PercentDecode(s) ==
    IF s = <<>> THEN <<>>
    ELSE IF IsEscape(s)
         THEN <<ByteChar(16 * HexVal(s[2]) + HexVal(s[3]))>>
                \o PercentDecode(SubSeq(s, 4, Len(s)))
         ELSE <<Head(s)>> \o PercentDecode(Tail(s))

\* A UTF-8 lead byte and the continuation bytes it needs; 0 for a byte
\* >= 128 that cannot start a character.
Utf8Need(b) ==
    IF b >= 194 /\ b <= 223 THEN 1
    ELSE IF b >= 224 /\ b <= 239 THEN 2
    ELSE IF b >= 240 /\ b <= 244 THEN 3
    ELSE 0

IsCont(b) == b >= 128 /\ b <= 191

\* PercentDecode::decode_utf8 succeeds: every byte >= 128 is part of a
\* well-formed multi-byte character.
RECURSIVE ValidUtf8(_)
ValidUtf8(bs) ==
    IF bs = <<>> THEN TRUE
    ELSE IF Head(bs) < 128 THEN ValidUtf8(Tail(bs))
    ELSE LET n == Utf8Need(Head(bs))
         IN  /\ n > 0
             /\ Len(bs) >= n + 1
             /\ \A i \in 2..(n + 1) : IsCont(bs[i])
             /\ ValidUtf8(SubSeq(bs, n + 2, Len(bs)))

(***************************************************************************)
(* std::path on Unix                                                       *)
(***************************************************************************)
\* Path::is_absolute
IsAbsolute(p) == p # <<>> /\ Head(p) = "/"

\* Path::join / PathBuf::push: an absolute argument replaces the base;
\* otherwise a separator is added unless the base already ends with one.
Join(base, rel) ==
    IF IsAbsolute(rel) THEN rel
    ELSE IF base # <<>> /\ base[Len(base)] # "/" THEN base \o <<"/">> \o rel
    ELSE base \o rel

\* The "/"-separated pieces of a string, empty pieces included.
RECURSIVE SplitSlash(_, _)
SplitSlash(s, cur) ==
    IF s = <<>> THEN <<cur>>
    ELSE IF Head(s) = "/" THEN <<cur>> \o SplitSlash(Tail(s), <<>>)
    ELSE SplitSlash(Tail(s), Append(cur, Head(s)))

DOTDOT == <<".", ".">>

\* Path::components of an absolute path, the root left out: empty pieces and
\* "." pieces are skipped, ".." is kept.
Components(p) ==
    LET Keep(c) == c # <<>> /\ c # <<".">>
    IN  SelectSeq(SplitSlash(p, <<>>), Keep)

\* Path::file_name: the last component when it is a normal one.
\* <<>> stands for None.
FileNameOf(p) ==
    LET cs == Components(p)
    IN  IF cs = <<>> \/ cs[Len(cs)] = DOTDOT THEN <<>> ELSE cs[Len(cs)]

\* The position of the last "." of a name, 0 when there is none.
LastDot(name) ==
    IF \E i \in 1..Len(name) : name[i] = "."
    THEN CHOOSE i \in 1..Len(name) :
            /\ name[i] = "."
            /\ \A j \in (i + 1)..Len(name) : name[j] # "."
    ELSE 0

\* Path::extension: [some, ext].  None when there is no file name, no ".",
\* or when the only "." is the first character of the name.
ExtensionOf(p) ==
    LET name == FileNameOf(p)
        i    == LastDot(name)
    IN  IF name = <<>> \/ i <= 1
        THEN [some |-> FALSE, ext |-> <<>>]
        ELSE [some |-> TRUE, ext |-> SubSeq(name, i + 1, Len(name))]

(***************************************************************************)
(* NASFile (src/src/file.rs)                                               *)
(***************************************************************************)
EXT_mp3  == <<"m","p","3">>
EXT_avi  == <<"a","v","i">>
EXT_mkv  == <<"m","k","v">>
EXT_mp4  == <<"m","p","4">>
EXT_m3u8 == <<"m","3","u","8">>
EXT_ts   == <<"t","s">>
EXT_pdf  == <<"p","d","f">>
EXT_txt  == <<"t","x","t">>
EXT_png  == <<"p","n","g">>
EXT_jpg  == <<"j","p","g">>
EXT_jpeg == <<"j","p","e","g">>
EXT_webp == <<"w","e","b","p">>

\* enum NASFileCategory, in declaration order
Categories ==
    <<"Directory", "Audio", "Video", "StreamPlaylist", "StreamSegment",
      "Document", "Image", "Unknown">>

CategorySet == {Categories[i] : i \in 1..Len(Categories)}

\* The match of NASFile::category on the extension text.
MatchExtensionAudioForAvi(e) ==
    CASE e = EXT_mp3  -> "Audio"
      [] e = EXT_avi  -> "Audio"
      [] e = EXT_mkv  -> "Video"
      [] e = EXT_mp4  -> "Video"
      [] e = EXT_m3u8 -> "StreamPlaylist"
      [] e = EXT_ts   -> "StreamSegment"
      [] e = EXT_pdf  -> "Document"
      [] e = EXT_txt  -> "Document"
      [] e = EXT_png  -> "Image"
      [] e = EXT_jpg  -> "Image"
      [] e = EXT_jpeg -> "Image"
      [] e = EXT_webp -> "Image"
      [] OTHER        -> "Unknown"

MatchExtension(e) ==
    CASE e = EXT_mp3  -> "Audio"
      [] e = EXT_avi  -> "Video"
      [] e = EXT_mkv  -> "Video"
      [] e = EXT_mp4  -> "Video"
      [] e = EXT_m3u8 -> "StreamPlaylist"
      [] e = EXT_ts   -> "StreamSegment"
      [] e = EXT_pdf  -> "Document"
      [] e = EXT_txt  -> "Document"
      [] e = EXT_png  -> "Image"
      [] e = EXT_jpg  -> "Image"
      [] e = EXT_jpeg -> "Image"
      [] e = EXT_webp -> "Image"
      [] OTHER        -> "Unknown"

\* NASFile::category.  Path::is_dir is false for a node that cannot be
\* stat-ed, so a missing node is classified by its extension.
Category(pathbuf, n) ==
    IF n.kind = "dir" THEN "Directory"
    ELSE IF ExtensionOf(pathbuf).some
         THEN MatchExtension(ExtensionOf(pathbuf).ext)
         ELSE "Unknown"

\* NASFile::file_name
FileName(pathbuf) ==
    IF FileNameOf(pathbuf) = <<>>
    THEN [ok |-> FALSE, val |-> <<>>]
    ELSE [ok |-> TRUE, val |-> FileNameOf(pathbuf)]

\* NASFile::extension
Extension(pathbuf, n) ==
    IF n.kind = "dir" THEN [ok |-> TRUE, val |-> <<>>]
    ELSE IF ~ExtensionOf(pathbuf).some THEN [ok |-> FALSE, val |-> <<>>]
    ELSE [ok |-> TRUE, val |-> ExtensionOf(pathbuf).ext]

\* NASFile::size_bytes
SizeBytes(pathbuf, n) ==
    IF n.kind = "dir" THEN [ok |-> TRUE, val |-> 0]
    ELSE IF n.kind = "none" THEN [ok |-> FALSE, val |-> 0]
    ELSE [ok |-> TRUE, val |-> n.len]

\* The result of a NASFile operation: the fields of NASFile on success, the
\* failing step otherwise.
NoRes ==
    [ok |-> FALSE, err |-> "", abs |-> <<>>, rel |-> <<>>, name |-> <<>>,
     cat |-> "", ext |-> <<>>, extOk |-> FALSE, size |-> 0, sizeOk |-> FALSE]

Failure(e) == [NoRes EXCEPT !.err = e]

\* The ROOT test of NASFile::from_pathbuf.
InsideRoot(abs) == StartsWith(abs, ROOT)

\* NASFile::from_pathbuf
FromPathbuf(pathbuf, n) ==
    IF ~InsideRoot(pathbuf) THEN Failure("OutsideRoot")
    ELSE IF ~FileName(pathbuf).ok THEN Failure("FileName")
    ELSE IF ~Extension(pathbuf, n).ok THEN Failure("Extension")
    ELSE IF ~SizeBytes(pathbuf, n).ok THEN Failure("Metadata")
    ELSE [ok |-> TRUE, err |-> "",
          abs |-> pathbuf,
          rel |-> StripPrefix(pathbuf, ROOT),
          name |-> FileName(pathbuf).val,
          cat |-> Category(pathbuf, n),
          ext |-> Extension(pathbuf, n).val, extOk |-> TRUE,
          size |-> SizeBytes(pathbuf, n).val, sizeOk |-> TRUE]

\* NASFile::from_relative_path_str
FromRelativePathStr(path, n) ==
    IF ~ValidUtf8(PercentDecodeBytes(path)) THEN Failure("Decode")
    ELSE FromPathbuf(Join(ROOT, PercentDecode(path)), n)

\* NASFile::relative_to_absolute_str
RelativeToAbsoluteStr(path) ==
    IF ~ValidUtf8(PercentDecodeBytes(path)) THEN Failure("Decode")
    ELSE [NoRes EXCEPT !.ok = TRUE, !.abs = Join(ROOT, PercentDecode(path))]

\* The three probes of from_pathbuf (category, extension, size_bytes) applied
\* to a path, each result kept.
Probes(pathbuf, n) ==
    [NoRes EXCEPT !.ok = TRUE, !.abs = pathbuf,
                  !.cat = Category(pathbuf, n),
                  !.ext = Extension(pathbuf, n).val,
                  !.extOk = Extension(pathbuf, n).ok,
                  !.size = SizeBytes(pathbuf, n).val,
                  !.sizeOk = SizeBytes(pathbuf, n).ok]

(***************************************************************************)
(* SpecFile: NASFile applied to bounded inputs                             *)
(***************************************************************************)
\* The longest enumerated input.
MaxLen == 4

\* The characters of the enumerated inputs: separator, dot, the escape
\* character, and three characters that are hex digits and name characters.
Alphabet == {"/", ".", "%", "2", "E", "F"}

ShortInputs == UNION {[1..k -> Alphabet] : k \in 0..MaxLen}

Named(stem, ext) == stem \o <<".">> \o ext

S_etc_passwd == <<"e","t","c","/","p","a","s","s","w","d">>
S_secret_x   == <<"n","a","s","_","r","o","o","t","-","s","e","c","r","e","t","/","x">>
S_home_ozark == <<"/","h","o","m","e","/","o","z","a","r","k","/">>

LongInputs ==
    {Named(<<"v">>, e) :
        e \in {EXT_mp3, EXT_avi, EXT_mkv, EXT_mp4, EXT_m3u8, EXT_ts, EXT_pdf,
               EXT_txt, EXT_png, EXT_jpg, EXT_jpeg, EXT_webp}}
    \cup {Named(<<"v">>, <<"z","i","p">>),          \* v.zip
          Named(<<"v">>, <<"M","P","4">>),          \* v.MP4
          Named(<<"v",".","t","a","r">>, EXT_mp4),  \* v.tar.mp4
          Named(<<>>, EXT_mp4),                     \* .mp4
          Named(<<"d",".","d","/","v">>, EXT_pdf),  \* d.d/v.pdf
          <<"R","E","A","D","M","E">>,
          <<".",".","/",".",".","/">> \o S_etc_passwd,
          <<".",".","/">> \o S_secret_x,
          <<"%","2","E","%","2","e","%","2","f">> \o S_secret_x,
          S_home_ozark \o S_secret_x,
          S_home_ozark \o <<"n","a","s","_","r","o","o","t">>,
          ROOT \o <<"x">>,
          <<"/">> \o S_etc_passwd,
          <<"%","C","3","%","A","9">>,              \* a two-byte character
          <<"%","C","3","x">>}                      \* a truncated one

Inputs == ShortInputs \cup LongInputs

\* The path the OS is asked about: ROOT joined with the decoded input.
Joined(path) == Join(ROOT, PercentDecode(path))

\* A path that can name a regular file: it ends in a normal component,
\* with no trailing "/" or "/.".
CanBeFile(p) ==
    LET pieces == SplitSlash(p, <<>>)
        last   == pieces[Len(pieces)]
    IN  last # <<>> /\ last # <<".">> /\ last # DOTDOT

NodeLens == {0, 4096}

InitFile ==
    /\ input \in Inputs
    /\ node \in [kind : {"none", "file", "dir"}, len : NodeLens]
    /\ node.kind = "file" => CanBeFile(Joined(input))
    /\ node.kind = "none" => node.len = 0
    /\ ~ValidUtf8(PercentDecodeBytes(input)) => node.kind = "none"
    /\ op = "none"
    /\ res = NoRes
    /\ listing = <<>> /\ sorted = FALSE /\ cmpPair = <<>> /\ cmpRes = <<>>
    /\ fs = <<>> /\ fs0 = <<>> /\ req = <<>> /\ envSteps = 0 /\ std = ""

DoFromRelativePathStr ==
    /\ op = "none"
    /\ op' = "from_relative_path_str"
    /\ res' = FromRelativePathStr(input, node)
    /\ UNCHANGED <<input, node, orderVars, delVars>>

DoRelativeToAbsoluteStr ==
    /\ op = "none"
    /\ op' = "relative_to_absolute_str"
    /\ res' = RelativeToAbsoluteStr(input)
    /\ UNCHANGED <<input, node, orderVars, delVars>>

DoProbes ==
    /\ op = "none"
    /\ ValidUtf8(PercentDecodeBytes(input))
    /\ op' = "probes"
    /\ res' = Probes(Joined(input), node)
    /\ UNCHANGED <<input, node, orderVars, delVars>>

NextFile ==
    \/ DoFromRelativePathStr
    \/ DoRelativeToAbsoluteStr
    \/ DoProbes

(***************************************************************************)
(* The vocabulary of the claims about NASFile                              *)
(***************************************************************************)
\* Lexical normalisation of an absolute path: "." and empty pieces dropped,
\* ".." removing the component before it (and nothing at the root).
RECURSIVE Resolve(_, _)
Resolve(cs, acc) ==
    IF cs = <<>> THEN acc
    ELSE IF Head(cs) = DOTDOT
         THEN Resolve(Tail(cs),
                      IF acc = <<>> THEN acc ELSE SubSeq(acc, 1, Len(acc) - 1))
         ELSE Resolve(Tail(cs), Append(acc, Head(cs)))

Normalized(p) == Resolve(Components(p), <<>>)

RootComponents == Components(ROOT)

\* Component-wise confinement: the normalised path begins with the root's
\* components.
Confined(p) ==
    /\ Len(Normalized(p)) >= Len(RootComponents)
    /\ SubSeq(Normalized(p), 1, Len(RootComponents)) = RootComponents

HasDotDotSegment(rel) ==
    \E i \in 1..Len(SplitSlash(rel, <<>>)) : SplitSlash(rel, <<>>)[i] = DOTDOT

\* The path resolves to a sibling of the root whose name extends the root's.
SiblingOfRoot(p) ==
    LET n == Normalized(p)
        k == Len(RootComponents)
    IN  /\ Len(n) >= k
        /\ SubSeq(n, 1, k - 1) = SubSeq(RootComponents, 1, k - 1)
        /\ n[k] # RootComponents[k]
        /\ StartsWith(n[k], RootComponents[k])

Decodes == ValidUtf8(PercentDecodeBytes(input))

Resolving == op \in {"from_relative_path_str", "relative_to_absolute_str"}

\* C1 (confinement), as claimed: a decoded relative path with a ".." segment,
\* an absolute prefix, or resolving to a sibling of the root is refused as
\* outside the root by both resolving operations, and a successful
\* resolution returns a path whose normalised components begin with the
\* root's.
C1_Confinement ==
    (Resolving /\ Decodes) =>
        /\ ( \/ HasDotDotSegment(PercentDecode(input))
             \/ IsAbsolute(PercentDecode(input))
             \/ SiblingOfRoot(Joined(input)) )
           => (~res.ok /\ res.err = "OutsideRoot")
        /\ res.ok => Confined(res.abs)

\* C5 (classification fails fast), as claimed: classifying a path whose node
\* does not exist yields an error, never a category.
C5_MissingNodeNotClassified ==
    (op = "probes" /\ node.kind = "none") => res.cat \notin CategorySet

\* C7 (no extension is not a failure), as claimed: for an existing, confined
\* regular file whose base name has no ".", entry construction succeeds with
\* category Unknown and an empty extension.
C7_NoExtensionBuildsUnknown ==
    ( /\ op = "from_relative_path_str"
      /\ Decodes
      /\ node.kind = "file"
      /\ InsideRoot(Joined(input))
      /\ Confined(Joined(input))
      /\ LastDot(FileNameOf(Joined(input))) = 0 )
    => (res.ok /\ res.cat = "Unknown" /\ res.ext = <<>>)

\* The closed table of the specification, as a relation.
TableCategory(e) ==
    IF e = EXT_mp3 THEN "Audio"
    ELSE IF e \in {EXT_avi, EXT_mkv, EXT_mp4} THEN "Video"
    ELSE IF e = EXT_m3u8 THEN "StreamPlaylist"
    ELSE IF e = EXT_ts THEN "StreamSegment"
    ELSE IF e \in {EXT_pdf, EXT_txt} THEN "Document"
    ELSE IF e \in {EXT_png, EXT_jpg, EXT_jpeg, EXT_webp} THEN "Image"
    ELSE "Unknown"

\* The text after the final "." of a name, if it has a ".".
TextAfterFinalDot(name) ==
    [some |-> LastDot(name) > 0,
     text |-> SubSeq(name, LastDot(name) + 1, Len(name))]

\* The same, a name whose only "." is its first character having no
\* extension.
TextAfterInnerDot(name) ==
    [some |-> LastDot(name) > 1,
     text |-> SubSeq(name, LastDot(name) + 1, Len(name))]

ByTable(t) == IF t.some THEN TableCategory(t.text) ELSE "Unknown"

DirectoryRow ==
    node.kind = "dir" =>
        /\ res.cat = "Directory"
        /\ res.extOk /\ res.ext = <<>>
        /\ res.sizeOk /\ res.size = 0

\* C8 (classification table), as claimed: a directory is Directory with
\* extension "" and size 0 whatever its name; any other existing node is
\* classified by the text after the final "." of its base name.
C8_TableByFinalDot ==
    (op = "probes" /\ node.kind # "none") =>
        /\ DirectoryRow
        /\ node.kind = "file" =>
              res.cat = ByTable(TextAfterFinalDot(FileNameOf(Joined(input))))

\* C8, amended: as C8_TableByFinalDot, except that a base name whose only
\* "." is its first character (".mp4") has no extension and is Unknown.
C8_TableByExtension ==
    (op = "probes" /\ node.kind # "none") =>
        /\ DirectoryRow
        /\ node.kind = "file" =>
              res.cat = ByTable(TextAfterInnerDot(FileNameOf(Joined(input))))

\* C8's case: an existing regular file named v.avi was classified Video.
C8_Witness ==
    /\ op = "probes"
    /\ node.kind = "file"
    /\ FileNameOf(Joined(input)) = Named(<<"v">>, EXT_avi)
    /\ res.cat = "Video"

(***************************************************************************)
(* The orderings of NASFile (src/src/file.rs)                              *)
(***************************************************************************)
\* The printable ASCII characters in code order, from " " (32) to "~" (126);
\* "<grave>" stands for the grave accent (96).
PrintableAscii ==
    <<
    " ", "!", "\"", "#", "$", "%", "&", "'", "(", ")", "*", "+",
      ",", "-", ".", "/", "0", "1", "2", "3", "4", "5", "6", "7",
      "8", "9", ":", ";", "<", "=", ">", "?", "@", "A", "B", "C",
      "D", "E", "F", "G", "H", "I", "J", "K", "L", "M", "N", "O",
      "P", "Q", "R", "S", "T", "U", "V", "W", "X", "Y", "Z", "[",
      "\\", "]", "^", "_", "<grave>", "a", "b", "c", "d", "e", "f", "g",
      "h", "i", "j", "k", "l", "m", "n", "o", "p", "q", "r", "s",
      "t", "u", "v", "w", "x", "y", "z", "{", "|", "}", "~">>

\* The code point of a printable ASCII character.
Code(c) == 31 + CHOOSE i \in 1..Len(PrintableAscii) : PrintableAscii[i] = c

\* Ord for String: lexicographic by byte, a proper prefix being less.
RECURSIVE StrCmp(_, _)
StrCmp(x, y) ==
    IF x = <<>> /\ y = <<>> THEN "Equal"
    ELSE IF x = <<>> THEN "Less"
    ELSE IF y = <<>> THEN "Greater"
    ELSE IF Head(x) = Head(y) THEN StrCmp(Tail(x), Tail(y))
    ELSE IF Code(Head(x)) < Code(Head(y)) THEN "Less"
    ELSE "Greater"

IntCmp(x, y) == IF x < y THEN "Less" ELSE IF x > y THEN "Greater" ELSE "Equal"

\* #[derive(Ord)] for NASFileCategory: by position in the declaration.
Discriminant(c) == CHOOSE i \in 1..Len(Categories) : Categories[i] = c

CategoryCmp(c, d) == IntCmp(Discriminant(c), Discriminant(d))

\* impl PartialEq for NASFile: equality of the absolute paths.
Eq(a, b) == a.absolute_path_str = b.absolute_path_str

\* impl PartialOrd for NASFile: partial_cmp (always Some).
PartialCmp(a, b) ==
    IF a.category = "Directory" /\ b.category = "Directory"
    THEN StrCmp(a.name, b.name)
    ELSE IF a.category = "Directory" THEN "Less"
    ELSE IF b.category = "Directory" THEN "Greater"
    ELSE StrCmp(a.name, b.name)

\* The first of a sequence of orderings that is not Equal.
RECURSIVE FirstDecided(_)
FirstDecided(os) ==
    IF os = <<>> THEN "Equal"
    ELSE IF Head(os) # "Equal" THEN Head(os)
    ELSE FirstDecided(Tail(os))

\* #[derive(Ord)] for NASFile: cmp, lexicographic over the fields in the
\* order of their declaration.
Cmp(a, b) ==
    FirstDecided(<<StrCmp(a.name, b.name),
                   StrCmp(a.relative_path_str, b.relative_path_str),
                   StrCmp(a.absolute_path_str, b.absolute_path_str),
                   CategoryCmp(a.category, b.category),
                   StrCmp(a.extension, b.extension),
                   IntCmp(a.size_bytes, b.size_bytes)>>)

\* The NASFile built by a successful from_pathbuf.
AsNASFile(r) ==
    [name |-> r.name,
     relative_path_str |-> r.rel,
     absolute_path_str |-> r.abs,
     category |-> r.cat,
     extension |-> r.ext,
     size_bytes |-> r.size]

\* slice::sort of a Vec<NASFile>: ascending by Ord::cmp (insertion into an
\* already sorted prefix; stable).
RECURSIVE InsertSorted(_, _)
InsertSorted(e, srt) ==
    IF srt = <<>> THEN <<e>>
    ELSE IF Cmp(e, Head(srt)) = "Less" THEN <<e>> \o srt
    ELSE <<Head(srt)>> \o InsertSorted(e, Tail(srt))

RECURSIVE SortByCmp(_)
SortByCmp(l) ==
    IF l = <<>> THEN <<>>
    ELSE InsertSorted(l[Len(l)], SortByCmp(SubSeq(l, 1, Len(l) - 1)))

(***************************************************************************)
(* SpecOrder: listings of one directory, compared and sorted               *)
(***************************************************************************)
\* The longest listing.
MaxListing == 3

\* The names of the listed directory's children.
ChildNames ==
    {<<"a">>, <<"b">>, Named(<<"a">>, EXT_ts), Named(<<"b">>, EXT_ts),
     Named(<<"a">>, EXT_mp4)}

\* The entries from_pathbuf builds for children of ROOT.
Entries ==
    {AsNASFile(FromPathbuf(ROOT \o n, nd)) :
        <<n, nd>> \in {x \in ChildNames
                              \X [kind : {"file", "dir"}, len : NodeLens] :
                         FromPathbuf(ROOT \o x[1], x[2]).ok}}

DistinctPaths(l) ==
    \A i, j \in 1..Len(l) : i # j => ~Eq(l[i], l[j])

Listings ==
    {l \in UNION {[1..k -> Entries] : k \in 0..MaxListing} : DistinctPaths(l)}

InitOrder ==
    /\ listing \in Listings
    /\ sorted = FALSE
    /\ cmpPair = <<>>
    /\ cmpRes = <<>>
    /\ input = <<>> /\ node = [kind |-> "none", len |-> 0]
    /\ op = "none" /\ res = NoRes
    /\ fs = <<>> /\ fs0 = <<>> /\ req = <<>> /\ envSteps = 0 /\ std = ""

\* a.partial_cmp(&b) and a.cmp(&b) for two entries of the listing
Compare(i, j) ==
    /\ cmpPair' = <<listing[i], listing[j]>>
    /\ cmpRes' = <<PartialCmp(listing[i], listing[j]),
                   Cmp(listing[i], listing[j])>>
    /\ UNCHANGED <<listing, sorted, fileVars, delVars>>

\* listing.sort()
SortListing ==
    /\ ~sorted
    /\ listing' = SortByCmp(listing)
    /\ sorted' = TRUE
    /\ UNCHANGED <<cmpPair, cmpRes, fileVars, delVars>>

NextOrder ==
    \/ \E i, j \in 1..Len(listing) : Compare(i, j)
    \/ SortListing

\* The ordering law of the specification: directories first, then by name.
IsDir(e) == e.category = "Directory"

LawLess(a, b) ==
    \/ IsDir(a) /\ ~IsDir(b)
    \/ IsDir(a) = IsDir(b) /\ StrCmp(a.name, b.name) = "Less"

\* C6 (ordering law), as claimed: both comparison entry points of NASFile
\* order a before b exactly when the law does, and a sorted listing has its
\* directories first, each group ascending by name.
C6_OrderingLaw ==
    /\ cmpPair # <<>> =>
          /\ (cmpRes[1] = "Less") = LawLess(cmpPair[1], cmpPair[2])
          /\ (cmpRes[2] = "Less") = LawLess(cmpPair[1], cmpPair[2])
    /\ sorted =>
          \A i, j \in 1..Len(listing) :
              i < j => ~LawLess(listing[j], listing[i])

(***************************************************************************)
(* The filesystem under the storage root                                   *)
(***************************************************************************)
\* A path is the sequence of its component names below the storage root;
\* the first component is a user's directory.
Paths ==
    {<<"u">>, <<"u", "d">>, <<"u", "d", "a.mp4">>, <<"u", "d", "s">>,
     <<"u", "d", "s", "c">>, <<"u", "f.txt">>, <<"v">>, <<"v", "g">>}

Kinds == {"none", "file", "dir"}

Parent(p) == SubSeq(p, 1, Len(p) - 1)

Children(p) == {q \in Paths : Len(q) = Len(p) + 1 /\ Parent(q) = p}

\* q is p or lies below p.
Under(q, p) == Len(q) >= Len(p) /\ SubSeq(q, 1, Len(p)) = p

\* Every node has a directory as its parent; the users' directories exist.
WellFormed(f) ==
    /\ \A p \in Paths : Len(p) = 1 => f[p] = "dir"
    /\ \A p \in Paths : (Len(p) > 1 /\ f[p] # "none") => f[Parent(p)] = "dir"

\* What a stat of path p finds; nothing exists outside Paths.
KindAt(f, p) == IF p \in Paths THEN f[p] ELSE "none"

\* The entries a readdir of directory p returns, each with its d_type.
ReadDir(f, p) == {<<c, f[c]>> : c \in {q \in Children(p) : f[q] # "none"}}

\* f with the nodes of set ps removed.
Without(f, ps) == [q \in Paths |-> IF q \in ps THEN "none" ELSE f[q]]

(***************************************************************************)
(* The delete handler (src/server/src/routes/fs/delete.rs)                 *)
(***************************************************************************)
\* The concurrent requests, numbered in the order of their arrival.
Reqs == {1, 2}

\* Steps of the other actor.
MaxEnvSteps == 1

\* identity.identity(): None or the user's name
NoUser == "none"

\* The relative paths requests ask to delete; the last one leaves the root.
RawPaths ==
    {<<"d">>, <<"d", "a.mp4">>, <<"d", "s">>, <<"f.txt">>, <<"..", "..", "etc">>}

\* The implementations of std::fs::remove_dir_all a build can link:
\*   "path_walk"    walks by path; any failing step fails the call;
\*   "fd_walk"      walks by directory handle; a listed directory that turns
\*                  out not to be one is unlinked instead;
\*   "fd_walk_lax"  as fd_walk, and an entry that has vanished counts as
\*                  removed (NotFound is reported only for the top path).
StdVersions == {"path_walk", "fd_walk", "fd_walk_lax"}

IdleReq ==
    [pc |-> "idle", identity |-> NoUser, raw |-> <<>>, renderOk |-> TRUE,
     target |-> <<>>, category |-> "", resp |-> "", stack |-> <<>>,
     authed |-> FALSE, touched |-> FALSE, afterDelete |-> FALSE,
     kindAtClassify |-> "", kindAtRemove |-> ""]

Done(rec, response) == [rec EXCEPT !.pc = "done", !.resp = response, !.stack = <<>>]

\* RelativePath::new(strip_trailing_char(path), username) followed by
\* AbsolutePath::try_from: the user's directory joined with the relative
\* path and normalised lexically; refused when it leaves the storage root.
RECURSIVE NormalizeFrom(_, _)
NormalizeFrom(cs, acc) ==
    IF cs = <<>> THEN [ok |-> TRUE, path |-> acc]
    ELSE IF Head(cs) = ".."
         THEN IF acc = <<>> THEN [ok |-> FALSE, path |-> <<>>]
              ELSE NormalizeFrom(Tail(cs), SubSeq(acc, 1, Len(acc) - 1))
         ELSE NormalizeFrom(Tail(cs), Append(acc, Head(cs)))

TryFromRelative(username, raw) == NormalizeFrom(<<username>> \o raw, <<>>)

\* The category of a regular file, by the table, from its name.
NameCategory(name) ==
    CASE name = "a.mp4" -> "Video"
      [] name = "f.txt" -> "Document"
      [] OTHER          -> "Unknown"

\* AbsolutePath::category: one metadata probe; NotFound for a missing node.
AbsoluteCategory(f, p) ==
    IF KindAt(f, p) = "none" THEN [ok |-> FALSE, cat |-> ""]
    ELSE IF KindAt(f, p) = "dir" THEN [ok |-> TRUE, cat |-> "Directory"]
    ELSE [ok |-> TRUE, cat |-> NameCategory(p[Len(p)])]

\* A request arrives: the framework extracts the identity and the path; the
\* outcome of rendering the "auth" template is the template engine's.
Arrive(r, id, raw, rok) ==
    /\ req[r].pc = "idle"
    /\ \A o \in Reqs : o < r => req[o].pc # "idle"
    /\ req' = [req EXCEPT ![r] =
                 [IdleReq EXCEPT
                    !.pc = "auth", !.identity = id, !.raw = raw,
                    !.renderOk = rok,
                    !.afterDelete =
                        /\ id # NoUser
                        /\ TryFromRelative(id, raw).ok
                        /\ \E o \in Reqs :
                              /\ req[o].resp = "200"
                              /\ req[o].target = TryFromRelative(id, raw).path]]
    /\ UNCHANGED <<fs, envSteps, std, fs0, fileVars, orderVars>>

\* delete.rs 20-41: without an identity answer 401 with the rendered auth
\* page, or the render error.
AuthCheckSkipped(r) ==
    /\ req[r].pc = "auth"
    /\ req' = [req EXCEPT ![r].pc = "resolve", ![r].authed = TRUE]
    /\ UNCHANGED <<fs, envSteps, std, fs0, fileVars, orderVars>>

AuthCheck(r) ==
    /\ req[r].pc = "auth"
    /\ req' = [req EXCEPT ![r] =
                 IF req[r].identity = NoUser
                 THEN Done(req[r], IF req[r].renderOk THEN "401"
                                   ELSE "TemplateRenderError")
                 ELSE [req[r] EXCEPT !.pc = "resolve", !.authed = TRUE]]
    /\ UNCHANGED <<fs, envSteps, std, fs0, fileVars, orderVars>>

\* delete.rs 43-48: the absolute path of the request, or its error.
ResolvePath(r) ==
    /\ req[r].pc = "resolve"
    /\ LET t == TryFromRelative(req[r].identity, req[r].raw)
       IN  req' = [req EXCEPT ![r] =
                     IF t.ok
                     THEN [req[r] EXCEPT !.pc = "classify", !.target = t.path]
                     ELSE Done(req[r], "OutsideRoot")]
    /\ UNCHANGED <<fs, envSteps, std, fs0, fileVars, orderVars>>

\* delete.rs 50: let category = absolute_path.category()?;
ClassifyDefaultingToUnknown(r) ==
    /\ req[r].pc = "classify"
    /\ LET c == AbsoluteCategory(fs, req[r].target)
       IN  req' = [req EXCEPT ![r] =
                     [req[r] EXCEPT !.pc = "remove",
                                    !.category = IF c.ok THEN c.cat ELSE "Unknown",
                                    !.touched = TRUE,
                                    !.kindAtClassify = KindAt(fs, req[r].target)]]
    /\ UNCHANGED <<fs, envSteps, std, fs0, fileVars, orderVars>>

Classify(r) ==
    /\ req[r].pc = "classify"
    /\ LET c   == AbsoluteCategory(fs, req[r].target)
           rec == [req[r] EXCEPT !.touched = TRUE,
                                 !.kindAtClassify = KindAt(fs, req[r].target)]
       IN  req' = [req EXCEPT ![r] =
                     IF c.ok
                     THEN [rec EXCEPT !.pc = "remove", !.category = c.cat]
                     ELSE Done(rec, "NotFound")]
    /\ UNCHANGED <<fs, envSteps, std, fs0, fileVars, orderVars>>

\* delete.rs 55-61: fs::remove_file, then 200.  unlink removes a regular
\* file and fails on a missing node (ENOENT) and on a directory (EISDIR).
RemoveFileIdempotent(r) ==
    /\ req[r].pc = "remove"
    /\ req[r].category # "Directory"
    /\ fs' = IF fs[req[r].target] = "file"
             THEN Without(fs, {req[r].target}) ELSE fs
    /\ req' = [req EXCEPT ![r] =
                 Done([req[r] EXCEPT !.kindAtRemove = fs[req[r].target]],
                      IF fs[req[r].target] # "dir" THEN "200"
                      ELSE "PathDeleteError")]
    /\ UNCHANGED <<envSteps, std, fs0, fileVars, orderVars>>

RemoveFileIgnoringError(r) ==
    /\ req[r].pc = "remove"
    /\ req[r].category # "Directory"
    /\ fs' = IF fs[req[r].target] = "file"
             THEN Without(fs, {req[r].target}) ELSE fs
    /\ req' = [req EXCEPT ![r] =
                 Done([req[r] EXCEPT !.kindAtRemove = fs[req[r].target]], "200")]
    /\ UNCHANGED <<envSteps, std, fs0, fileVars, orderVars>>

RemoveFile(r) ==
    /\ req[r].pc = "remove"
    /\ req[r].category # "Directory"
    /\ fs' = IF fs[req[r].target] = "file"
             THEN Without(fs, {req[r].target}) ELSE fs
    /\ req' = [req EXCEPT ![r] =
                 Done([req[r] EXCEPT !.kindAtRemove = fs[req[r].target]],
                      IF fs[req[r].target] = "file" THEN "200"
                      ELSE "PathDeleteError")]
    /\ UNCHANGED <<envSteps, std, fs0, fileVars, orderVars>>

\* A frame of the recursive walk: a directory and its entries still to do.
Frame(f, p) == [dir |-> p, todo |-> ReadDir(f, p)]

\* delete.rs 53-54: fs::remove_dir_all begins: the top path must be a
\* directory that can be opened and listed.
RemoveDirAllBeginUnlinkingFile(r) ==
    /\ req[r].pc = "remove"
    /\ req[r].category = "Directory"
    /\ LET rec == [req[r] EXCEPT !.kindAtRemove = fs[req[r].target]]
       IN  /\ req' = [req EXCEPT ![r] =
                        IF fs[req[r].target] = "dir"
                        THEN [rec EXCEPT !.pc = "walk",
                                         !.stack = <<Frame(fs, req[r].target)>>]
                        ELSE IF fs[req[r].target] = "file" THEN Done(rec, "200")
                        ELSE Done(rec, "PathDeleteError")]
           /\ fs' = IF fs[req[r].target] = "file"
                    THEN Without(fs, {req[r].target}) ELSE fs
    /\ UNCHANGED <<envSteps, std, fs0, fileVars, orderVars>>

RemoveDirAllBegin(r) ==
    /\ req[r].pc = "remove"
    /\ req[r].category = "Directory"
    /\ LET rec == [req[r] EXCEPT !.kindAtRemove = fs[req[r].target]]
       IN  req' = [req EXCEPT ![r] =
                     IF fs[req[r].target] = "dir"
                     THEN [rec EXCEPT !.pc = "walk",
                                      !.stack = <<Frame(fs, req[r].target)>>]
                     ELSE Done(rec, "PathDeleteError")]
    /\ UNCHANGED <<fs, envSteps, std, fs0, fileVars, orderVars>>

\* The walk with entry e of its top frame done.
EntryDone(rec, e) ==
    [rec EXCEPT !.stack[Len(rec.stack)].todo = @ \ {e}]

\* fs::remove_dir_all handles one listed entry <<path, d_type>>: a directory
\* is entered, anything else unlinked.
RemoveDirAllEntry(r, e) ==
    /\ req[r].pc = "walk"
    /\ e \in req[r].stack[Len(req[r].stack)].todo
    /\ LET c   == e[1]
           now == fs[c]
           rec == EntryDone(req[r], e)
       IN  IF e[2] = "dir"
           THEN CASE now = "dir" ->
                       /\ req' = [req EXCEPT ![r] =
                                    [rec EXCEPT !.stack = Append(@, Frame(fs, c))]]
                       /\ fs' = fs
                  [] now = "none" ->
                       /\ req' = [req EXCEPT ![r] =
                                    IF std = "fd_walk_lax" THEN rec
                                    ELSE Done(rec, "PathDeleteError")]
                       /\ fs' = fs
                  [] now = "file" ->
                       IF std = "path_walk"
                       THEN /\ req' = [req EXCEPT ![r] = Done(rec, "PathDeleteError")]
                            /\ fs' = fs
                       ELSE /\ req' = [req EXCEPT ![r] = rec]
                            /\ fs' = Without(fs, {c})
           ELSE CASE now = "file" ->
                       /\ req' = [req EXCEPT ![r] = rec]
                       /\ fs' = Without(fs, {c})
                  [] now = "none" ->
                       /\ req' = [req EXCEPT ![r] =
                                    IF std = "fd_walk_lax" THEN rec
                                    ELSE Done(rec, "PathDeleteError")]
                       /\ fs' = fs
                  [] now = "dir" ->
                       /\ req' = [req EXCEPT ![r] = Done(rec, "PathDeleteError")]
                       /\ fs' = fs
    /\ UNCHANGED <<envSteps, std, fs0, fileVars, orderVars>>

\* The walk with its top frame left; the call returns Ok, and the handler
\* answers 200, when that was the last one.
FrameLeft(rec) ==
    IF Len(rec.stack) = 1 THEN Done(rec, "200")
    ELSE [rec EXCEPT !.stack = SubSeq(@, 1, Len(@) - 1)]

\* fs::remove_dir_all removes a directory whose entries are all done: rmdir
\* fails on a non-empty directory and on a regular file.
RemoveDirAllRmdir(r) ==
    /\ req[r].pc = "walk"
    /\ req[r].stack[Len(req[r].stack)].todo = {}
    /\ LET d == req[r].stack[Len(req[r].stack)].dir
       IN  CASE fs[d] = "dir" /\ ReadDir(fs, d) = {} ->
                  /\ fs' = Without(fs, {d})
                  /\ req' = [req EXCEPT ![r] = FrameLeft(req[r])]
             [] fs[d] = "none" /\ std = "fd_walk_lax" ->
                  /\ fs' = fs
                  /\ req' = [req EXCEPT ![r] = FrameLeft(req[r])]
             [] OTHER ->
                  /\ fs' = fs
                  /\ req' = [req EXCEPT ![r] = Done(req[r], "PathDeleteError")]
    /\ UNCHANGED <<envSteps, std, fs0, fileVars, orderVars>>

\* Another actor replaces the node at p by one of the other type: a regular
\* file by an empty directory, a directory (with all below it) by a file.
EnvSwap(p) ==
    /\ envSteps < MaxEnvSteps
    /\ Len(p) > 1
    /\ fs[p] # "none"
    /\ fs' = IF fs[p] = "file"
             THEN [fs EXCEPT ![p] = "dir"]
             ELSE [Without(fs, {q \in Paths : Under(q, p)}) EXCEPT ![p] = "file"]
    /\ envSteps' = envSteps + 1
    /\ UNCHANGED <<req, std, fs0, fileVars, orderVars>>

\* The requests are numbered in the order of their arrival.
Next ==
    \/ \E r \in Reqs, raw \in RawPaths : Arrive(r, "u", raw, TRUE)
    \/ \E r \in Reqs, rok \in BOOLEAN : Arrive(r, NoUser, <<"d">>, rok)
    \/ \E r \in Reqs : AuthCheck(r)
    \/ \E r \in Reqs : ResolvePath(r)
    \/ \E r \in Reqs : Classify(r)
    \/ \E r \in Reqs : RemoveFile(r)
    \/ \E r \in Reqs : RemoveDirAllBegin(r)
    \/ \E r \in Reqs, e \in Paths \X Kinds : RemoveDirAllEntry(r, e)
    \/ \E r \in Reqs : RemoveDirAllRmdir(r)
    \/ \E p \in Paths : EnvSwap(p)

(***************************************************************************)
(* The claims about the delete handler                                     *)
(***************************************************************************)
Finished(r) == req[r].pc = "done"

\* Request r takes the step.
StepOf(r) == req'[r] # req[r]

\* C2 (no identity, no filesystem), as claimed: a request without identity
\* ends with 401 and never touches the filesystem; a request touches the
\* filesystem only after its identity check succeeded.
C2_Unauthenticated401 ==
    \A r \in Reqs :
        /\ (Finished(r) /\ req[r].identity = NoUser) =>
              (req[r].resp = "401" /\ ~req[r].touched)
        /\ req[r].touched => (req[r].authed /\ req[r].identity # NoUser)

\* C2, amended: a request without identity ends with 401, or with the
\* template render error when the auth page cannot be rendered; either way
\* it never touches the filesystem, and a request touches the filesystem
\* only after its identity check succeeded.
C2_UnauthenticatedNeverTouches ==
    /\ \A r \in Reqs :
          /\ (Finished(r) /\ req[r].identity = NoUser) =>
                /\ req[r].resp = (IF req[r].renderOk THEN "401"
                                  ELSE "TemplateRenderError")
                /\ ~req[r].touched
                /\ req[r].target = <<>>
          /\ req[r].resp = "401" => req[r].identity = NoUser
          /\ req[r].touched => (req[r].authed /\ req[r].identity # NoUser)
    /\ (\A r \in Reqs : req[r].identity = NoUser) => fs = fs0 \/ envSteps > 0

\* C2's case: a request without identity was answered 401 over a populated
\* filesystem.
C2_Witness ==
    \E r \in Reqs :
        /\ Finished(r)
        /\ req[r].identity = NoUser
        /\ req[r].resp = "401"
        /\ fs[<<"u", "d">>] = "dir"

\* C3 (dispatch and frame): a step of a request changes no node outside its
\* target's subtree; the step that answers 200 leaves neither the target nor
\* a descendant; for a category other than Directory that step removes
\* exactly the target, a regular file; 200 is answered by no other step
\* than a successful removal.
C3_DispatchAndFrame ==
    [][\A r \in Reqs : StepOf(r) =>
          /\ \A p \in Paths :
                (req[r].target = <<>> \/ ~Under(p, req[r].target))
                    => fs'[p] = fs[p]
          /\ (req'[r].resp = "200" /\ req[r].resp # "200") =>
                /\ req[r].pc \in {"remove", "walk"}
                /\ \A p \in Paths : Under(p, req[r].target) => fs'[p] = "none"
                /\ req[r].category = "Directory" =>
                      \/ fs[req[r].target] = "dir"
                      \/ fs[req[r].target] = "none" /\ std = "fd_walk_lax"
                /\ req[r].category # "Directory" =>
                      /\ fs[req[r].target] = "file"
                      /\ \A p \in Paths : p # req[r].target => fs'[p] = fs[p]
      ]_vars

\* C3's case: a populated directory was deleted with 200, and so was a
\* single file, its sibling left in place.
C3_Witness ==
    /\ \E r \in Reqs :
          /\ req[r].resp = "200"
          /\ req[r].category = "Directory"
          /\ req[r].target = <<"u", "d">>
          /\ fs0[<<"u", "d", "a.mp4">>] = "file"
          /\ fs0[<<"u", "d", "s", "c">>] = "file"
    /\ \E r \in Reqs :
          /\ req[r].resp = "200"
          /\ req[r].category = "Document"
    /\ fs[<<"v", "g">>] = "file"

TypeChanged(rec) ==
    \/ rec.category = "Directory" /\ rec.kindAtRemove = "file"
    \/ rec.category \notin {"", "Directory"} /\ rec.kindAtRemove = "dir"

\* What C9 says of every step, whatever the error is called.
NeverTheOtherPath ==
    [][\A r \in Reqs : StepOf(r) =>
          /\ (req[r].pc = "remove" /\ TypeChanged(req'[r])) => fs' = fs
          /\ req[r].category \notin {"", "Directory"} =>
                \A p \in Paths : fs'[p] # fs[p] =>
                    (p = req[r].target /\ fs[p] = "file")
          /\ req[r].category = "Directory" =>
                ~(fs[req[r].target] = "file" /\ fs'[req[r].target] = "none")
      ]_vars

\* C9 (check-then-delete race), as claimed: when the node's type changed
\* between classification and removal the delete ends with TypeMismatch and
\* removes nothing; a non-directory never has a subtree removed and a
\* Directory never has a regular file unlinked in its place.
C9_AbortsWithTypeMismatch ==
    /\ [](\A r \in Reqs :
            TypeChanged(req[r]) => (Finished(r) /\ req[r].resp = "TypeMismatch"))
    /\ NeverTheOtherPath

\* C9, amended: as claimed, except that the error is the generic delete
\* error (PathDeleteError), the failure of the removal primitive.
C9_AbortsWithDeleteError ==
    /\ [](\A r \in Reqs :
            TypeChanged(req[r]) => (Finished(r) /\ req[r].resp = "PathDeleteError"))
    /\ NeverTheOtherPath

\* C9's case: a request classified its target as a Directory, another actor
\* put a regular file in its place before the removal began, and the request
\* ended with the delete error, the file still there.
C9_Witness ==
    \E r \in Reqs :
        /\ req[r].category = "Directory" /\ req[r].kindAtRemove = "file"
        /\ envSteps > 0
        /\ req[r].resp = "PathDeleteError"
        /\ fs[req[r].target] = "file"

\* Two authenticated requests for path p, which existed at the start, have
\* both ended, and no other actor has touched the filesystem.
PairDeleted(p) ==
    /\ fs0[p] # "none"
    /\ envSteps = 0
    /\ \A r \in Reqs : Finished(r) /\ req[r].authed /\ req[r].target = p

Successes == {r \in Reqs : req[r].resp = "200"}

Gone(p) == \A q \in Paths : Under(q, p) => fs[q] = "none"

ExactlyOneSucceeds(p) ==
    /\ Cardinality(Successes) = 1
    /\ \A r \in Reqs \ Successes : req[r].resp \in {"NotFound", "PathDeleteError"}
    /\ Gone(p)

\* C10 (concurrent deletes of one path), as claimed: exactly one of the two
\* requests succeeds, the other ends with NotFound or the delete error, and
\* afterwards the target and everything below it are gone.
C10_ExactlyOneSucceeds ==
    \A p \in Paths : PairDeleted(p) => ExactlyOneSucceeds(p)

\* C10, amended: that holds when the target is a single file.  For a
\* directory the recursive removal is not atomic: both requests may answer
\* 200, or both may fail; each ends with 200, NotFound or the delete error,
\* and whenever one answers 200 the target and everything below it are gone.
C10_OneSucceedsForAFile ==
    \A p \in Paths : PairDeleted(p) =>
        /\ fs0[p] = "file" => ExactlyOneSucceeds(p)
        /\ \A r \in Reqs : req[r].resp \in {"200", "NotFound", "PathDeleteError"}
        /\ Successes # {} => Gone(p)

\* C10's case: two requests deleted the same file, one with 200 and the
\* other with the delete error after both had classified it.
C10_Witness ==
    /\ PairDeleted(<<"u", "d", "a.mp4">>)
    /\ req[1].resp = "PathDeleteError"
    /\ req[2].resp = "200"
    /\ req[1].kindAtClassify = "file"

(***************************************************************************)
(* Specifications                                                          *)
(***************************************************************************)
Init ==
    /\ fs \in {f \in [Paths -> Kinds] : WellFormed(f)}
    /\ fs[<<"v", "g">>] = "file"
    /\ fs[<<"u", "f.txt">>] = "file"
    /\ fs0 = fs
    /\ req = [r \in Reqs |-> IdleReq]
    /\ envSteps = 0
    /\ std \in StdVersions
    /\ input = <<>> /\ node = [kind |-> "none", len |-> 0]
    /\ op = "none" /\ res = NoRes
    /\ listing = <<>> /\ sorted = FALSE /\ cmpPair = <<>> /\ cmpRes = <<>>

\* The delete handler serving concurrent requests.
Spec == Init /\ [][Next]_vars

\* NASFile applied to bounded inputs.
SpecFile == InitFile /\ [][NextFile]_vars

\* Listings compared and sorted.
SpecOrder == InitOrder /\ [][NextOrder]_vars

=============================================================================
